---- MODULE Spec2Model ----
(***************************************************************************)
(* Binary-tree membership core of the MLM application: the in-memory user  *)
(* store (MemStorage in server/storage.ts), direct placement               *)
(* (createClient), fallback placement (createClientWithPayment), the       *)
(* position / downline queries and deleteClient.                           *)
(*                                                                         *)
(* A user record keeps the fields the tree logic reads: id, role, parentId *)
(* and position.  The store is a sequence because a JavaScript Map         *)
(* enumerates its values in insertion order and the fallback scan depends  *)
(* on that order.  Ids stand for randomUUID() values: every new record     *)
(* gets an id that was never used before.                                  *)
(***************************************************************************)
EXTENDS Integers, Sequences, FiniteSets, TLC

VARIABLES users, nextId, last, scen, reqs

vars == <<users, nextId, last, scen, reqs>>

\* Number of client records created in one run (ids are never reused).
MaxClients == 3
\* Number of records written in one run of the store interface taken alone.
MaxStoreWrites == 2

\* The absent (null / undefined) parentId, createdById or adminId.
Null == 0
\* The absent (null / undefined) position.
NoPos == "null"
\* The id of the admin record made by initializeAdminUser.
AdminId == 1

Positions == {"left", "right"}

\* The username of the admin record made by initializeAdminUser.
AdminName == "admin"
\* Usernames callers pick when the same name may be asked for twice.
Usernames == {"ann", "bob"}
\* The requests that can be under way at the same time.
Slots == {"r1", "r2"}
\* A username nobody else has: one per id.
FreshName(id) == "user" \o ToString(id)

----------------------------------------------------------------------------
(* Sequence helpers *)

Range(s) == {s[i] : i \in 1..Len(s)}

RECURSIVE Concat(_)
Concat(ss) == IF Len(ss) = 0 THEN <<>> ELSE Head(ss) \o Concat(Tail(ss))

\* JavaScript  a || b  on ids.
OrId(a, b) == IF a # Null THEN a ELSE b

----------------------------------------------------------------------------
(* Store reads *)

\* this.users.get(id) tells whether a record exists.
HasUser(us, id) == \E i \in 1..Len(us) : us[i].id = id

getUser(us, id) == us[CHOOSE i \in 1..Len(us) : us[i].id = id]

getAllClients(us) == SelectSeq(us, LAMBDA u : u.role = "client")

getClientsByParent(us, parentId) == SelectSeq(us, LAMBDA u : u.parentId = parentId)

\* children.map(child => child.position).filter(Boolean)
OccupiedPositions(us, parentId) ==
    {c.position : c \in {d \in Range(getClientsByParent(us, parentId)) : d.position # NoPos}}

\* Faulty variant: only the first child's position counts as occupied.
getAvailablePositionsFirstChild(us, parentId) ==
    LET children == getClientsByParent(us, parentId)
        occupied == IF Len(children) > 0 /\ children[1].position # NoPos
                    THEN {children[1].position} ELSE {}
    IN  SelectSeq(<<"left", "right">>, LAMBDA pos : pos \notin occupied)

\* Faulty variant: allPositions listed right before left.
getAvailablePositionsRightFirst(us, parentId) ==
    SelectSeq(<<"right", "left">>, LAMBDA pos : pos \notin OccupiedPositions(us, parentId))

\* Faulty variant: the free positions are counted, two minus the number of
\* children, instead of being looked up.
getAvailablePositionsByCount(us, parentId) ==
    SubSeq(<<"left", "right">>, 1, 2 - Len(getClientsByParent(us, parentId)))

getAvailablePositions(us, parentId) ==
    SelectSeq(<<"left", "right">>, LAMBDA pos : pos \notin OccupiedPositions(us, parentId))

\* Faulty variant: the direct children only, without their own downlines.
getClientDownlineDirect(us, clientId) == getClientsByParent(us, clientId)

RECURSIVE getClientDownline(_, _)
getClientDownline(us, clientId) ==
    LET directChildren == getClientsByParent(us, clientId)
    IN  Concat([i \in 1..Len(directChildren) |->
                  <<directChildren[i]>> \o getClientDownline(us, directChildren[i].id)])

----------------------------------------------------------------------------
(* Placement resolution *)

\* Faulty variant: the desired position is not read.
DirectPositionFirstFree(desired, availablePositions) == availablePositions[1]

\* createClient:  position = client.position || availablePositions[0]
DirectPosition(desired, availablePositions) ==
    IF desired # NoPos THEN desired ELSE availablePositions[1]

\* The clients, in store order, that still have a free position.
ClientsWithRoom(us) ==
    SelectSeq(getAllClients(us), LAMBDA c : Len(getAvailablePositions(us, c.id)) > 0)

\* Faulty variant: the scan tests availablePos.length === 0, so it stops at
\* the first client without room and reads a position that is not there.
ScanFullClients(us, parentId) ==
    LET found == SelectSeq(getAllClients(us),
                           LAMBDA c : Len(getAvailablePositions(us, c.id)) = 0)
    IN  IF Len(found) > 0
        THEN [parentId |-> found[1].id, position |-> NoPos]
        ELSE [parentId |-> parentId, position |-> NoPos]

\* Faulty variant: the scan keeps the last client with room, not the first.
ScanLastClient(us, parentId) ==
    LET found == ClientsWithRoom(us)
    IN  IF Len(found) > 0
        THEN [parentId |-> found[Len(found)].id,
              position |-> getAvailablePositions(us, found[Len(found)].id)[1]]
        ELSE [parentId |-> parentId, position |-> NoPos]

\* Faulty variant: the scan looks at no client at all.
ScanNoClients(us, parentId) == [parentId |-> parentId, position |-> NoPos]

\* createClientWithPayment: the scan over allClients, stopping at the first
\* potentialParent with a free position.  Without a hit parentId stays as it
\* was and position stays null.
ScanAllClients(us, parentId) ==
    LET found == ClientsWithRoom(us)
    IN  IF Len(found) > 0
        THEN [parentId |-> found[1].id,
              position |-> getAvailablePositions(us, found[1].id)[1]]
        ELSE [parentId |-> parentId, position |-> NoPos]

\* createClientWithPayment:  if (!position && adminId) { ... }
UnderAdmin(us, r, adminId) ==
    IF r.position = NoPos /\ adminId # Null
    THEN LET adminPositions == getAvailablePositions(us, adminId)
         IN  [parentId |-> adminId,
              position |-> IF Len(adminPositions) > 0 THEN adminPositions[1] ELSE NoPos]
    ELSE r

\* createClientWithPayment: the (parentId, position) written to the new
\* record.  client.position is never read by this method.
FallbackPlacement(us, clientParentId, adminId) ==
    LET parentId == OrId(clientParentId, adminId)
    IN  IF parentId = Null
        THEN [parentId |-> Null, position |-> NoPos]
        ELSE LET availablePositions == getAvailablePositions(us, parentId)
             IN  IF Len(availablePositions) = 0
                 THEN UnderAdmin(us, ScanAllClients(us, parentId), adminId)
                 ELSE [parentId |-> parentId, position |-> availablePositions[1]]

\* Faulty variant: the record is stored without the client role.
NewClientWithoutRole(id, username, parentId, position) ==
    [id |-> id, username |-> username, role |-> "",
     parentId |-> parentId, position |-> position]

NewClient(id, username, parentId, position) ==
    [id |-> id, username |-> username, role |-> "client",
     parentId |-> parentId, position |-> position]

\* createUser:  role: insertUser.role || "client"
OrRole(role) == IF role # "" THEN role ELSE "client"

\* createUser: the record it stores, whatever parentId and position say.
NewUser(id, username, role, parentId, position) ==
    [id |-> id, username |-> username, role |-> OrRole(role),
     parentId |-> parentId, position |-> position]

----------------------------------------------------------------------------
(* Deletion *)

\* Faulty variant: the child's position is left behind.
DetachParentOnly(child) == [child EXCEPT !.parentId = Null]

\* Faulty variant: the child is made its own parent.
DetachToSelf(child) == [child EXCEPT !.parentId = child.id, !.position = NoPos]

\* deleteClient:  child.parentId = null; child.position = null
Detach(child) == [child EXCEPT !.parentId = Null, !.position = NoPos]

\* Faulty variant: the record is removed and its children are left as they are.
RemoveOnly(us, id) == SelectSeq(us, LAMBDA u : u.id # id)

\* Faulty variant: the children are handed to the deleted record's own parent
\* and position instead of being detached.
RemoveAndReassign(us, id) ==
    LET gone == us[CHOOSE i \in 1..Len(us) : us[i].id = id]
        moved == [i \in 1..Len(us) |->
                     IF us[i].parentId = id
                     THEN [us[i] EXCEPT !.parentId = gone.parentId,
                                        !.position = gone.position]
                     ELSE us[i]]
    IN  SelectSeq(moved, LAMBDA u : u.id # id)

\* Faulty variant: the deletion cascades, the record goes with its whole downline.
RemoveSubtree(us, id) ==
    LET gone == {id} \cup {d.id : d \in Range(getClientDownline(us, id))}
    IN  SelectSeq(us, LAMBDA u : u.id \notin gone)

\* deleteClient on an existing client: detach its children in place, then
\* remove the record; the other records keep their order.
RemoveClient(us, id) ==
    LET detached == [i \in 1..Len(us) |->
                        IF us[i].parentId = id THEN Detach(us[i]) ELSE us[i]]
    IN  SelectSeq(detached, LAMBDA u : u.id # id)

----------------------------------------------------------------------------
(* State machine *)

\* What the last call was, with its arguments and what it returned.
Call(op, parentId, position, by, id, result, children) ==
    [op |-> op, parentId |-> parentId, position |-> position, by |-> by,
     id |-> id, result |-> result, children |-> children]

\* The scenario counter: "s<k>" while the run so far is exactly k fallback
\* placements with client.parentId = adminId = AdminId and no position.
ScenStep(s) ==
    CASE s = "s0" -> "s1"
      [] s = "s1" -> "s2"
      [] s = "s2" -> "s3"
      [] OTHER -> "off"

\* Ids a caller can name: every id handed out so far
\* (records that still exist and records that were deleted).
KnownIds == 1..(nextId - 1)

\* A request slot with no request under way.
Idle == [pc |-> "idle", route |-> "", username |-> "", parentId |-> Null, position |-> NoPos]

\* A request between two awaits: where it stands and the values it holds.
Pending(pc, route, username, parentId, position) ==
    [pc |-> pc, route |-> route, username |-> username,
     parentId |-> parentId, position |-> position]

\* users: the values of the Map this.users in insertion order; nextId: the
\* next unused id; last: the last store call with its arguments, the id it
\* created or was given, its outcome and (deleteClient) the deleted record's
\* parentId and the ids of the children it detached; scen: the scenario
\* counter; reqs: the requests under way, each stopped at an await.
TypeOK ==
    /\ users \in Seq([id : 1..(nextId - 1),
                      username : {AdminName} \cup Usernames \cup {FreshName(i) : i \in KnownIds},
                      role : {"admin", "client"},
                      parentId : 0..(nextId - 1), position : Positions \cup {NoPos}])
    /\ nextId \in (AdminId + 1)..(AdminId + MaxClients + 1)
    /\ last.op \in {"init", "createUser", "createClient", "createClientWithPayment",
                    "deleteClient", "POST /api/clients", "POST /api/clients/downline",
                    "POST /api/clients/create-with-payment", "DELETE /api/clients/:id",
                    "insert"}
    /\ last.result \in {"ok", "ParentFull", "false", "UsernameTaken", "ParentNotFound",
                        "PaymentRequired", "OnlyClients", "NotFound", "CannotDeleteAdmin",
                        "UniqueViolation"}
    /\ reqs \in [Slots -> [pc : {"idle", "hash", "scan", "insert"},
                           route : {"", "clients", "downline", "payment", "pg"},
                           username : Usernames \cup {""} \cup {FreshName(i) : i \in 1..nextId},
                           parentId : 0..(nextId - 1),
                           position : Positions \cup {NoPos}]]
    /\ last.children \subseteq KnownIds
    /\ scen \in {"s0", "s1", "s2", "s3", "off"}

\* The store after the constructor: the admin record alone.
Init ==
    /\ users = <<[id |-> AdminId, username |-> AdminName, role |-> "admin",
                  parentId |-> Null, position |-> NoPos]>>
    /\ nextId = AdminId + 1
    /\ last = Call("init", Null, NoPos, Null, Null, "ok", {})
    /\ scen = "s0"
    /\ reqs = [r \in Slots |-> Idle]

CanCreate == nextId <= AdminId + MaxClients

\* createUser: no test of username, role, parentId or position before the
\* record is stored.
createUser(username, role, parentId, position) ==
    /\ CanCreate
    /\ users' = Append(users, NewUser(nextId, username, role, parentId, position))
    /\ nextId' = nextId + 1
    /\ last' = Call("createUser", parentId, position, Null, nextId, "ok", {})
    /\ scen' = "off"

createClient(username, clientParentId, clientPosition, createdById) ==
    LET parentId == OrId(clientParentId, createdById)
        availablePositions ==
            IF parentId # Null THEN getAvailablePositions(users, parentId) ELSE <<>>
    IN  /\ scen' = "off"
        /\ IF parentId # Null /\ Len(availablePositions) = 0
           THEN \* throw new Error("Parent already has 2 children")
                /\ last' = Call("createClient", clientParentId, clientPosition,
                                createdById, Null, "ParentFull", {})
                /\ UNCHANGED <<users, nextId>>
           ELSE /\ CanCreate
                /\ users' = Append(users,
                       NewClient(nextId, username, parentId,
                                 IF parentId # Null
                                 THEN DirectPosition(clientPosition, availablePositions)
                                 ELSE NoPos))
                /\ nextId' = nextId + 1
                /\ last' = Call("createClient", clientParentId, clientPosition,
                                createdById, nextId, "ok", {})

createClientWithPayment(username, clientParentId, clientPosition, adminId) ==
    LET r == FallbackPlacement(users, clientParentId, adminId)
    IN  /\ CanCreate
        /\ users' = Append(users, NewClient(nextId, username, r.parentId, r.position))
        /\ nextId' = nextId + 1
        /\ last' = Call("createClientWithPayment", clientParentId, clientPosition,
                        adminId, nextId, "ok", {})
        /\ scen' = IF clientParentId = AdminId /\ adminId = AdminId /\ clientPosition = NoPos
                   THEN ScenStep(scen) ELSE "off"

\* Faulty variant: the role test is missing, so any existing record goes.
deleteAnyUser(id) ==
    /\ scen' = "off"
    /\ UNCHANGED nextId
    /\ IF ~HasUser(users, id)
       THEN /\ last' = Call("deleteClient", Null, NoPos, Null, id, "false", {})
            /\ UNCHANGED users
       ELSE /\ users' = RemoveClient(users, id)
            /\ last' = Call("deleteClient", getUser(users, id).parentId, NoPos, Null, id,
                            "ok", {c.id : c \in Range(getClientsByParent(users, id))})

deleteClient(id) ==
    /\ scen' = "off"
    /\ UNCHANGED nextId
    /\ IF ~HasUser(users, id) \/ getUser(users, id).role # "client"
       THEN \* return false
            /\ last' = Call("deleteClient", Null, NoPos, Null, id, "false", {})
            /\ UNCHANGED users
       ELSE /\ users' = RemoveClient(users, id)
            /\ last' = Call("deleteClient", getUser(users, id).parentId, NoPos, Null, id,
                            "ok", {c.id : c \in Range(getClientsByParent(users, id))})

Next ==
    \/ \E p \in KnownIds \cup {Null}, pos \in Positions \cup {NoPos}, by \in {Null, AdminId} :
          createClient(FreshName(nextId), p, pos, by) /\ UNCHANGED reqs
    \/ \E p \in KnownIds \cup {Null}, pos \in Positions \cup {NoPos}, by \in {Null, AdminId} :
          createClientWithPayment(FreshName(nextId), p, pos, by) /\ UNCHANGED reqs
    \/ \E id \in KnownIds : deleteClient(id) /\ UNCHANGED reqs

Spec == Init /\ [][Next]_vars

\* The store interface called directly, createUser included, with usernames
\* that may repeat.
CanWrite == nextId <= AdminId + MaxStoreWrites

NextStore ==
    \/ \E name \in Usernames, role \in {"", "admin", "client"},
          p \in KnownIds \cup {Null}, pos \in Positions \cup {NoPos} :
          CanWrite /\ createUser(name, role, p, pos) /\ UNCHANGED reqs
    \/ \E name \in Usernames, p \in KnownIds \cup {Null}, pos \in Positions \cup {NoPos},
          by \in {Null, AdminId} :
          CanWrite /\ createClient(name, p, pos, by) /\ UNCHANGED reqs
    \/ \E name \in Usernames, p \in KnownIds \cup {Null}, pos \in Positions \cup {NoPos},
          by \in {Null, AdminId} :
          CanWrite /\ createClientWithPayment(name, p, pos, by) /\ UNCHANGED reqs
    \/ \E id \in KnownIds : deleteClient(id) /\ UNCHANGED reqs

SpecStore == Init /\ [][NextStore]_vars

\* Fallback placement over stores that createUser has filled: createUser
\* stores any role under any parent, so a parent can be full without any
\* client having room.
NextSeeded ==
    \/ \E role \in {"", "admin"}, p \in KnownIds \cup {Null}, pos \in Positions \cup {NoPos} :
          createUser(FreshName(nextId), role, p, pos) /\ UNCHANGED reqs
    \/ \E p \in KnownIds \cup {Null}, by \in {Null, AdminId} :
          createClientWithPayment(FreshName(nextId), p, NoPos, by) /\ UNCHANGED reqs

SpecSeeded == Init /\ [][NextSeeded]_vars

----------------------------------------------------------------------------
(* The routes over MemStorage.  A handler runs until it awaits bcrypt.hash  *)
(* inside the store method; the awaits before it and after it resolve at    *)
(* once, so a creation request takes two steps: the route's checks, then    *)
(* the store method.  The delete route awaits nothing that waits.           *)

\* getUserByUsername(username) finds a record.
HasUsername(us, username) == \E i \in 1..Len(us) : us[i].username = username

\* The handler answers with an error status and touches nothing.
Respond(route, id, result) ==
    /\ last' = Call(route, Null, NoPos, Null, id, result, {})
    /\ scen' = "off"
    /\ UNCHANGED <<users, nextId, reqs>>

\* The handler goes on to the store method, which first awaits the hash.
Await(r, route, username, parentId) ==
    /\ reqs' = [reqs EXCEPT ![r] = Pending("hash", route, username, parentId, NoPos)]
    /\ scen' = "off"
    /\ UNCHANGED <<users, nextId, last>>

InFlight == Cardinality({r \in Slots : reqs[r].pc # "idle"})

\* Room for one more request that may write a record.
CanStart == (nextId - AdminId - 1) + InFlight < MaxStoreWrites

\* POST /api/clients, up to the call of storage.createClient.
postClientsCheck(r, username, parentId) ==
    /\ reqs[r].pc = "idle" /\ CanStart
    /\ IF HasUsername(users, username)
       THEN Respond("POST /api/clients", Null, "UsernameTaken")
       ELSE Await(r, "clients", username, OrId(parentId, AdminId))

\* POST /api/clients: storage.createClient(finalClientData, req.session.userId).
postClientsCreate(r, position) ==
    /\ reqs[r].pc = "hash" /\ reqs[r].route = "clients"
    /\ createClient(reqs[r].username, reqs[r].parentId, position, AdminId)
    /\ reqs' = [reqs EXCEPT ![r] = Idle]

\* POST /api/clients/downline, up to the call of storage.createClient; session
\* is req.session.userId.
postDownlineCheck(r, session, username) ==
    /\ reqs[r].pc = "idle" /\ CanStart
    /\ IF session = AdminId
       THEN Respond("POST /api/clients/downline", Null, "OnlyClients")
       ELSE IF HasUsername(users, username)
            THEN Respond("POST /api/clients/downline", Null, "UsernameTaken")
            ELSE Await(r, "downline", username, session)

\* POST /api/clients/downline: storage.createClient(clientData, req.session.userId).
postDownlineCreate(r, position) ==
    /\ reqs[r].pc = "hash" /\ reqs[r].route = "downline"
    /\ createClient(reqs[r].username, reqs[r].parentId, position, reqs[r].parentId)
    /\ reqs' = [reqs EXCEPT ![r] = Idle]

\* POST /api/clients/create-with-payment, up to the call of
\* storage.createClientWithPayment.
postPaymentCheck(r, paymentConfirmed, username, parentId) ==
    /\ reqs[r].pc = "idle" /\ CanStart
    /\ IF ~paymentConfirmed
       THEN Respond("POST /api/clients/create-with-payment", Null, "PaymentRequired")
       ELSE IF HasUsername(users, username)
            THEN Respond("POST /api/clients/create-with-payment", Null, "UsernameTaken")
            ELSE IF ~HasUser(users, OrId(parentId, AdminId))
                 THEN Respond("POST /api/clients/create-with-payment", Null,
                              "ParentNotFound")
                 ELSE Await(r, "payment", username, OrId(parentId, AdminId))

\* POST /api/clients/create-with-payment:
\* storage.createClientWithPayment(finalClientData, req.session.userId).
postPaymentCreate(r, position) ==
    /\ reqs[r].pc = "hash" /\ reqs[r].route = "payment"
    /\ createClientWithPayment(reqs[r].username, reqs[r].parentId, position, AdminId)
    /\ reqs' = [reqs EXCEPT ![r] = Idle]

\* DELETE /api/clients/:id
deleteRoute(id) ==
    IF ~HasUser(users, id)
    THEN Respond("DELETE /api/clients/:id", id, "NotFound")
    ELSE IF getUser(users, id).role = "admin"
         THEN Respond("DELETE /api/clients/:id", id, "CannotDeleteAdmin")
         ELSE deleteClient(id) /\ UNCHANGED reqs

NextRoutes ==
    \/ \E r \in Slots, name \in Usernames, p \in KnownIds \cup {Null} :
          postClientsCheck(r, name, p)
    \/ \E r \in Slots, pos \in Positions \cup {NoPos} : postClientsCreate(r, pos)
    \/ \E r \in Slots, session \in KnownIds, name \in Usernames :
          postDownlineCheck(r, session, name)
    \/ \E r \in Slots, pos \in Positions \cup {NoPos} : postDownlineCreate(r, pos)
    \/ \E r \in Slots, paid \in BOOLEAN, name \in Usernames, p \in KnownIds \cup {Null} :
          postPaymentCheck(r, paid, name, p)
    \/ \E r \in Slots, pos \in Positions \cup {NoPos} : postPaymentCreate(r, pos)
    \/ \E id \in KnownIds : deleteRoute(id)

SpecRoutes == Init /\ [][NextRoutes]_vars

----------------------------------------------------------------------------
(* PostgreSQLStorage.createClientWithPayment.  Every query is an await that *)
(* waits, so other requests run between the read of the requested parent's  *)
(* positions, the fallback scan and the insert.  The queries of one scan    *)
(* are taken together.                                                      *)

\* Faulty variant: the table also has a unique index on (parent_id, position).
InsertAllowedUniqueSlot(us, rec) ==
    /\ ~HasUsername(us, rec.username)
    /\ ~ /\ rec.parentId # Null /\ rec.position # NoPos
         /\ \E i \in 1..Len(us) :
               us[i].parentId = rec.parentId /\ us[i].position = rec.position

\* The constraints of the users table an insert has to pass: id is a fresh
\* primary key, username is unique, nothing is said about parent_id and
\* position.
InsertAllowed(us, rec) == ~HasUsername(us, rec.username)

\* Room for one more createClientWithPayment call.
CanStartPg == (nextId - AdminId - 1) + InFlight < MaxClients

\* getAvailablePositions(parentId) for the requested parent, and the branch
\* taken on its answer.
pgAvailable(r, username, clientParentId, clientPosition) ==
    LET parentId == OrId(clientParentId, AdminId)
        availablePositions == getAvailablePositions(users, parentId)
    IN  /\ reqs[r].pc = "idle" /\ CanStartPg
        /\ reqs' = [reqs EXCEPT ![r] =
                      IF Len(availablePositions) = 0
                      THEN Pending("scan", "pg", username, parentId, NoPos)
                      ELSE Pending("insert", "pg", username, parentId,
                                   availablePositions[1])]
        /\ scen' = "off"
        /\ UNCHANGED <<users, nextId, last>>

\* The scan of getAllClients(): the query has no ORDER BY, so any client
\* with room may be the first one met; without one, the admin's positions.
pgScan(r) ==
    /\ reqs[r].pc = "scan"
    /\ IF Len(ClientsWithRoom(users)) > 0
       THEN \E c \in Range(ClientsWithRoom(users)) :
               reqs' = [reqs EXCEPT ![r] =
                          Pending("insert", "pg", reqs[r].username, c.id,
                                  getAvailablePositions(users, c.id)[1])]
       ELSE LET a == UnderAdmin(users,
                                [parentId |-> reqs[r].parentId, position |-> NoPos],
                                AdminId)
            IN  reqs' = [reqs EXCEPT ![r] =
                           Pending("insert", "pg", reqs[r].username, a.parentId,
                                   a.position)]
    /\ scen' = "off"
    /\ UNCHANGED <<users, nextId, last>>

\* this.db.insert(users).values({...}).returning()
pgInsert(r) ==
    LET rec == NewClient(nextId, reqs[r].username, reqs[r].parentId, reqs[r].position)
    IN  /\ reqs[r].pc = "insert"
        /\ reqs' = [reqs EXCEPT ![r] = Idle]
        /\ scen' = "off"
        /\ IF InsertAllowed(users, rec)
           THEN /\ CanCreate
                /\ users' = Append(users, rec)
                /\ nextId' = nextId + 1
                /\ last' = Call("insert", rec.parentId, rec.position, AdminId,
                                nextId, "ok", {})
           ELSE /\ last' = Call("insert", rec.parentId, rec.position, AdminId,
                                Null, "UniqueViolation", {})
                /\ UNCHANGED <<users, nextId>>

NextPg ==
    \/ \E r \in Slots, name \in Usernames \cup {FreshName(nextId)},
          p \in KnownIds \cup {Null}, pos \in Positions \cup {NoPos} :
          pgAvailable(r, name, p, pos)
    \/ \E r \in Slots : pgScan(r)
    \/ \E r \in Slots : pgInsert(r)

SpecPg == Init /\ [][NextPg]_vars

----------------------------------------------------------------------------
(* Vocabulary of the properties, stated on the records themselves *)

\* Parent P has a child recorded at position pos.
HasChildAt(us, P, pos) ==
    \E i \in 1..Len(us) : us[i].parentId = P /\ us[i].position = pos

ChildrenAt(us, P, pos) ==
    {i \in 1..Len(us) : us[i].parentId = P /\ us[i].position = pos}

IsFull(us, P) == HasChildAt(us, P, "left") /\ HasChildAt(us, P, "right")

FirstFree(us, P) == IF ~HasChildAt(us, P, "left") THEN "left" ELSE "right"

\* The parent a placement call asks for: client.parentId, else the caller's id.
Requested(call) == OrId(call.parentId, call.by)

\* The record the last successful creation appended.
Newest(us) == us[Len(us)]

Ids(recs) == {recs[i].id : i \in 1..Len(recs)}

\* The ids met by following parentId upwards from id, as far as records exist.
RECURSIVE Ancestors(_, _)
Ancestors(us, id) ==
    IF ~HasUser(us, id) \/ getUser(us, id).parentId = Null
    THEN {}
    ELSE {getUser(us, id).parentId} \cup Ancestors(us, getUser(us, id).parentId)

----------------------------------------------------------------------------
(* C1 .. C10 *)

\* C1: after any sequence of placements and deletions every parent id has at
\* most one child at position left and at most one at position right.
C1_AtMostOneChildPerPosition ==
    \A P \in KnownIds : \A pos \in Positions :
        Cardinality(ChildrenAt(users, P, pos)) <= 1

\* C2: a successful createClient whose desired position is absent or already
\* occupied under the parent, while a position is free, places the client at
\* the first free position (left before right).
C2_DirectOccupiedDesiredGoesToFirstFree ==
    [][ ( /\ last'.op = "createClient" /\ last'.result = "ok"
          /\ Requested(last') # Null
          /\ ~IsFull(users, Requested(last'))
          /\ \/ last'.position = NoPos
             \/ HasChildAt(users, Requested(last'), last'.position) )
        => Newest(users').position = FirstFree(users, Requested(last')) ]_vars

\* C3: createClient under a parent whose left and right positions are both
\* occupied fails with the parent-full error and leaves the user records as
\* they were.
C3_DirectFullParentRejected ==
    [][ ( /\ last'.op = "createClient"
          /\ Requested(last') # Null
          /\ IsFull(users, Requested(last')) )
        => (last'.result = "ParentFull" /\ users' = users) ]_vars

C3_Witness ==
    /\ last.op = "createClient" /\ last.result = "ParentFull"
    /\ IsFull(users, Requested(last))
    /\ Len(users) >= 3

\* C4: createClientWithPayment under a requested parent with a free position
\* keeps that parent and takes the desired position when it is given and
\* free, otherwise the first free position.
C4_FallbackHonoursDesiredPosition ==
    [][ ( /\ last'.op = "createClientWithPayment"
          /\ Requested(last') # Null
          /\ ~IsFull(users, Requested(last')) )
        => ( /\ Newest(users').parentId = Requested(last')
             /\ Newest(users').position =
                    IF /\ last'.position # NoPos
                       /\ ~HasChildAt(users, Requested(last'), last'.position)
                    THEN last'.position
                    ELSE FirstFree(users, Requested(last')) ) ]_vars

\* C5: when the requested parent is full and some client has a free position,
\* createClientWithPayment succeeds and places the new client under a client
\* of the store at a position that was free under that client.
C5_FallbackFindsFreeSlot ==
    [][ ( /\ last'.op = "createClientWithPayment"
          /\ Requested(last') # Null
          /\ IsFull(users, Requested(last'))
          /\ \E c \in Range(users) : c.role = "client" /\ ~IsFull(users, c.id) )
        => ( /\ last'.result = "ok"
             /\ Len(users') = Len(users) + 1
             /\ Newest(users').position \in Positions
             /\ \E c \in Range(users) :
                   /\ c.role = "client"
                   /\ c.id = Newest(users').parentId
                   /\ ~HasChildAt(users, c.id, Newest(users').position) ) ]_vars

C5_Witness ==
    /\ last.op = "createClientWithPayment" /\ last.result = "ok"
    /\ Requested(last) # Null
    /\ IsFull(users, Requested(last))
    /\ Newest(users).id = last.id
    /\ Newest(users).parentId # Requested(last)
    /\ Newest(users).position \in Positions

\* C6: once the requested parent is full, the new client goes under the first
\* client in store order that has a free position, at that client's first
\* free position, whatever position the caller asked for.
C6_FallbackTakesFirstClientInStoreOrder ==
    [][ ( /\ last'.op = "createClientWithPayment"
          /\ Requested(last') # Null
          /\ IsFull(users, Requested(last')) )
        => \A i \in 1..Len(users) :
              ( /\ users[i].role = "client" /\ ~IsFull(users, users[i].id)
                /\ \A j \in 1..(i - 1) :
                      ~(users[j].role = "client" /\ ~IsFull(users, users[j].id)) )
              => ( /\ Newest(users').parentId = users[i].id
                   /\ Newest(users').position = FirstFree(users, users[i].id) ) ]_vars

\* The caller asked for right; two clients had room and the scan answered
\* left under the one created first.
C6_Witness ==
    /\ last.op = "createClientWithPayment"
    /\ Requested(last) = AdminId
    /\ last.position = "right"
    /\ Len(users) = 4
    /\ Newest(users).id = last.id
    /\ Newest(users).position = "left"
    /\ Newest(users).parentId = users[2].id
    /\ users[3].role = "client" /\ ~IsFull(users, users[3].id)
    /\ IsFull(users, AdminId)

\* C7: from the store holding only the admin A, three successive fallback
\* placements with requested parent A, admin A and no desired position give
\* (A, left), then (A, right), then (first-created child of A, left).
C7_ThreePlacementsScenario ==
    /\ scen \in {"s1", "s2", "s3"} =>
          /\ users[2].parentId = AdminId /\ users[2].position = "left"
    /\ scen \in {"s2", "s3"} =>
          /\ users[3].parentId = AdminId /\ users[3].position = "right"
    /\ scen = "s3" =>
          /\ Len(users) = 4
          /\ users[4].parentId = users[2].id /\ users[4].position = "left"

C7_Witness == scen = "s3" /\ Len(users) = 4

\* C9: every client record has a position exactly when it has a parentId.
C9_PositionIffParent ==
    \A u \in Range(users) :
        u.role = "client" => ((u.position # NoPos) <=> (u.parentId # Null))

\* A deletion has just detached children while placed clients remain.
C9_Witness ==
    /\ last.op = "deleteClient" /\ last.result = "ok"
    /\ last.children # {}
    /\ \E u \in Range(users) : u.role = "client" /\ u.parentId # Null
    /\ \E u \in Range(users) : u.role = "client" /\ u.parentId = Null

\* C10: deleting client X clears parentId and position of every direct child
\* of X, and afterwards the downline of every former ancestor of X holds
\* neither X nor anything that was in X's downline.
C10_DeleteDetachesSubtree ==
    [][ (last'.op = "deleteClient" /\ last'.result = "ok")
        => LET X == last'.id
               gone == {X} \cup Ids(getClientDownline(users, X))
           IN  /\ \A c \in Range(getClientsByParent(users, X)) :
                     /\ HasUser(users', c.id)
                     /\ getUser(users', c.id).parentId = Null
                     /\ getUser(users', c.id).position = NoPos
               /\ \A a \in Ancestors(users, X) :
                     Ids(getClientDownline(users', a)) \cap gone = {} ]_vars

\* X had a living parent and a child that has a descendant of its own.
C10_Witness ==
    /\ last.op = "deleteClient" /\ last.result = "ok"
    /\ last.parentId # Null /\ HasUser(users, last.parentId)
    /\ \E c \in last.children :
          /\ HasUser(users, c)
          /\ getUser(users, c).parentId = Null
          /\ Len(getClientDownline(users, c)) > 0

----------------------------------------------------------------------------
(* C11 .. C20 *)

\* The records from which following parentId links upwards meets n.
Below(us, n) == {u.id : u \in {v \in Range(us) : n \in Ancestors(us, v.id)}}

\* C11: for every node n, downline(n) is exactly the set of nodes reachable
\* from n by one or more parentId links, each listed once, and never n.
C11_DownlineIsDescendants ==
    \A n \in KnownIds :
        LET d == getClientDownline(users, n)
        IN  /\ Ids(d) = Below(users, n)
            /\ Cardinality(Ids(d)) = Len(d)
            /\ n \notin Ids(d)

\* The tree A -> left B, right C and B -> left D, with the three downlines
\* of the example.
C11_Witness ==
    /\ Len(users) = 4
    /\ users[2].parentId = AdminId /\ users[2].position = "left"
    /\ users[3].parentId = AdminId /\ users[3].position = "right"
    /\ users[4].parentId = users[2].id /\ users[4].position = "left"
    /\ Ids(getClientDownline(users, AdminId)) = {users[2].id, users[3].id, users[4].id}
    /\ Ids(getClientDownline(users, users[2].id)) = {users[4].id}
    /\ getClientDownline(users, users[3].id) = <<>>

\* Following parentId from id arrives at a record without a parent in at
\* most fuel steps.
RECURSIVE ReachesRoot(_, _, _)
ReachesRoot(us, id, fuel) ==
    IF ~HasUser(us, id) THEN FALSE
    ELSE IF getUser(us, id).parentId = Null THEN TRUE
    ELSE IF fuel = 0 THEN FALSE
    ELSE ReachesRoot(us, getUser(us, id).parentId, fuel - 1)

\* C12: following parentId references from any node reaches a node with no
\* parent in at most as many steps as there are nodes in the store.
C12_ParentWalkReachesRoot ==
    \A u \in Range(users) : ReachesRoot(users, u.id, Len(users))

\* C19: exactly one admin record exists, it has neither parent nor position,
\* and deleteClient called with the admin's id returns false.
C19_OneParentlessAdmin ==
    /\ Cardinality({i \in 1..Len(users) : users[i].role = "admin"}) = 1
    /\ \A u \in Range(users) :
          u.role = "admin" => (u.id = AdminId /\ u.parentId = Null /\ u.position = NoPos)
    /\ (last.op = "deleteClient" /\ last.id = AdminId) => last.result = "false"

C19_Witness ==
    /\ last.op = "deleteClient" /\ last.id = AdminId /\ last.result = "false"
    /\ HasChildAt(users, AdminId, "left")

\* C20: a record that stays in the store keeps its (parentId, position),
\* except that both become null in the step that deletes its direct parent.
C20_PlacementIsFixed ==
    [][ \A i \in 1..Len(users) :
          HasUser(users', users[i].id) =>
             LET u == users[i]
                 v == getUser(users', users[i].id)
             IN  \/ v.parentId = u.parentId /\ v.position = u.position
                 \/ /\ last'.op = "deleteClient" /\ last'.result = "ok"
                    /\ u.parentId # Null /\ last'.id = u.parentId
                    /\ v.parentId = Null /\ v.position = NoPos ]_vars

\* A deletion has detached a child while a client placed at right under
\* another parent stayed where it was.
C20_Witness ==
    /\ last.op = "deleteClient" /\ last.result = "ok"
    /\ \E c \in last.children :
          HasUser(users, c) /\ getUser(users, c).parentId = Null
    /\ \E u \in Range(users) :
          u.role = "client" /\ u.parentId # Null /\ u.position = "right"

\* C14 (part of the store interface, SpecStore): createUser, createClient and
\* createClientWithPayment never store a record whose username a record of
\* the store already has; such a call fails and leaves the store as it was.
C14_InsertRejectsTakenUsername ==
    [][ ( /\ last'.op \in {"createUser", "createClient", "createClientWithPayment"}
          /\ Len(users') = Len(users) + 1 )
        => \A u \in Range(users) : u.username # Newest(users').username ]_vars

\* C17 (SpecStore): the store rejects a createUser whose parentId and position
\* name a position that a child of that parent already holds.
C17_StoreRejectsSecondChildAtPosition ==
    [][ ( /\ last'.op = "createUser"
          /\ last'.parentId # Null /\ last'.position \in Positions
          /\ HasChildAt(users, last'.parentId, last'.position) )
        => users' = users ]_vars

\* C18 (SpecStore): availablePositions(P) is {left, right} without the
\* positions held by the records whose parentId is P, children without a
\* position not counting, listed left before right; it is empty exactly when
\* left and right are both occupied.
C18_AvailableIsComplement ==
    \A P \in KnownIds :
        LET a == getAvailablePositions(users, P)
        IN  /\ Range(a) = Positions \ {u.position : u \in {v \in Range(users) : v.parentId = P}}
            /\ a \in {<<>>, <<"left">>, <<"right">>, <<"left", "right">>}
            /\ (a = <<>>) <=> IsFull(users, P)

\* The admin has a child without a position and a child at left; right is
\* what remains.
C18_Witness ==
    /\ \E u \in Range(users) : u.parentId = AdminId /\ u.position = NoPos
    /\ HasChildAt(users, AdminId, "left")
    /\ getAvailablePositions(users, AdminId) = <<"right">>

\* C13 (the routes, SpecRoutes): a placement request whose referenced parent
\* id has no record is rejected and creates no user record: no creation
\* request goes on to the store method with such a parent, and
\* storage.createClient stores nothing under such a parent.
C13_MissingParentRejected ==
    [][ /\ \A r \in Slots :
              (reqs[r].pc = "idle" /\ reqs'[r].pc = "hash")
              => HasUser(users, reqs'[r].parentId)
        /\ (last'.op = "createClient" /\ Len(users') = Len(users) + 1)
              => HasUser(users, Requested(last')) ]_vars

\* C15 (SpecRoutes): no two records share a username, also when the
\* username checks and the inserts of two requests interleave.
C15_UsernamesUnique ==
    \A i, j \in 1..Len(users) : i # j => users[i].username # users[j].username

----------------------------------------------------------------------------
(* C21 .. C30 *)

\* C21: deleteClient(X) removes the record X and nothing else: every other
\* record stays, only records whose parentId was X change, and the downline
\* of each detached child is the same before and after the deletion.
C21_DeleteNeverCascades ==
    [][ (last'.op = "deleteClient" /\ last'.result = "ok")
        => LET X == last'.id
           IN  /\ HasUser(users, X) /\ ~HasUser(users', X)
               /\ Len(users') = Len(users) - 1
               /\ \A u \in Range(users) :
                     u.id # X =>
                        /\ HasUser(users', u.id)
                        /\ u.parentId # X => getUser(users', u.id) = u
               /\ \A c \in Range(getClientsByParent(users, X)) :
                     getClientDownline(users', c.id) = getClientDownline(users, c.id) ]_vars

\* X is gone, its child is a root and the child's own child is still placed
\* under it.
C21_Witness ==
    /\ last.op = "deleteClient" /\ last.result = "ok"
    /\ Len(users) = 3
    /\ users[2].id \in last.children /\ users[2].parentId = Null
    /\ users[3].parentId = users[2].id /\ users[3].position \in Positions

\* C22: whenever some parent is full, some client has a free position; a
\* fallback placement whose requested parent is full therefore always ends
\* under a client found by the scan, never in the branch taken when the scan
\* finds nobody.
C22_ScanAlwaysFindsAClient ==
    [][ /\ (\E P \in KnownIds : IsFull(users, P))
              => \E c \in Range(users) : c.role = "client" /\ ~IsFull(users, c.id)
        /\ ( /\ last'.op = "createClientWithPayment"
             /\ Requested(last') # Null
             /\ IsFull(users, Requested(last')) )
           => /\ Newest(users').id = last'.id
              /\ Newest(users').position \in Positions
              /\ \E c \in Range(users) :
                    /\ c.role = "client" /\ ~IsFull(users, c.id)
                    /\ c.id = Newest(users').parentId ]_vars

\* The admin is full while a client has room, and the placement asked under
\* the admin went to that client.
C22_Witness ==
    /\ last.op = "createClientWithPayment" /\ last.result = "ok"
    /\ Requested(last) = AdminId
    /\ IsFull(users, AdminId)
    /\ Newest(users).id = last.id
    /\ Newest(users).parentId \notin {Null, AdminId}
    /\ \E u \in Range(users) : u.role = "client" /\ ~IsFull(users, u.id)

\* The recursion of downline(id) goes at most fuel levels deep.
RECURSIVE DownlineEnds(_, _, _)
DownlineEnds(us, id, fuel) ==
    \A u \in Range(us) :
        u.parentId = id => (fuel > 0 /\ DownlineEnds(us, u.id, fuel - 1))

\* C24: downline(n) terminates for every node n: its recursion never goes
\* deeper than the number of records in the store.
C24_DownlineTerminates ==
    \A n \in KnownIds : DownlineEnds(users, n, Len(users))

\* A chain three levels deep below the admin.
C24_Witness ==
    /\ Len(users) = 4
    /\ users[2].parentId = AdminId
    /\ users[3].parentId = users[2].id
    /\ users[4].parentId = users[3].id
    /\ Len(getClientDownline(users, AdminId)) = 3

\* C25: createClient with a desired position that is free under the parent
\* stores the new client at exactly that position under exactly the
\* requested parent.
C25_DirectFreeDesiredIsKept ==
    [][ ( /\ last'.op = "createClient"
          /\ Requested(last') # Null
          /\ last'.position \in Positions
          /\ ~HasChildAt(users, Requested(last'), last'.position) )
        => ( /\ last'.result = "ok"
             /\ Len(users') = Len(users) + 1
             /\ Newest(users').id = last'.id
             /\ Newest(users').parentId = Requested(last')
             /\ Newest(users').position = last'.position ) ]_vars

\* right was asked for and given although left was free too.
C25_Witness ==
    /\ last.op = "createClient" /\ last.result = "ok"
    /\ last.position = "right"
    /\ Newest(users).id = last.id
    /\ Newest(users).parentId = Requested(last)
    /\ Newest(users).position = "right"
    /\ ~HasChildAt(users, Requested(last), "left")
    /\ Cardinality(ChildrenAt(users, Requested(last), "right")) = 1

\* C30: a successful createClient or createClientWithPayment adds one record
\* with role client under a new id and leaves the records already there as
\* they were; deleteClient on an id without a record or on an admin's id
\* returns false and leaves the store as it was.
C30_PlacementAddsOneDeleteMissingAddsNone ==
    [][ /\ ( /\ last'.op \in {"createClient", "createClientWithPayment"}
             /\ last'.result = "ok" )
           => ( /\ Len(users') = Len(users) + 1
                /\ SubSeq(users', 1, Len(users)) = users
                /\ ~HasUser(users, last'.id)
                /\ Newest(users').id = last'.id
                /\ Newest(users').role = "client" )
        /\ ( /\ last'.op = "deleteClient"
             /\ \/ ~HasUser(users, last'.id)
                \/ getUser(users, last'.id).role = "admin" )
           => (last'.result = "false" /\ users' = users) ]_vars

\* deleteClient was called a second time on a client that is already gone,
\* while other clients are in the store.
C30_Witness ==
    /\ last.op = "deleteClient" /\ last.result = "false"
    /\ last.id # AdminId /\ ~HasUser(users, last.id)
    /\ \E u \in Range(users) : u.role = "client" /\ u.id > last.id

\* C26: after creations and deletions carried out one at a time, every
\* parentId that is not null names a record of the store.
C26_NoDanglingParent ==
    \A u \in Range(users) : u.parentId # Null => HasUser(users, u.parentId)

\* C27 (the routes, SpecRoutes): a create-with-payment request whose parent
\* was there at the route's check never stores a child under a parent that
\* has been deleted in the meantime.
C27_PaymentNeverWritesUnderDeletedParent ==
    [][ \A r \in Slots :
          ( /\ reqs[r].pc = "hash" /\ reqs[r].route = "payment"
            /\ reqs'[r].pc = "idle"
            /\ Len(users') = Len(users) + 1 )
          => \/ Newest(users').parentId = Null
             \/ HasUser(users', Newest(users').parentId) ]_vars

\* C28: createClientWithPayment called with the admin's id, for a requested
\* parent that has a record, puts the new client under the admin or under a
\* member of the admin's downline.
C28_FallbackStaysUnderAdmin ==
    [][ ( /\ last'.op = "createClientWithPayment" /\ last'.result = "ok"
          /\ last'.by = AdminId
          /\ HasUser(users, Requested(last')) )
        => \/ Newest(users').parentId = AdminId
           \/ Newest(users').parentId \in Ids(getClientDownline(users, AdminId)) ]_vars

\* C29: right after the deletion of a client that was at position pos under
\* parent P, pos is among availablePositions(P).
C29_DeleteFreesThePosition ==
    [][ ( /\ last'.op = "deleteClient" /\ last'.result = "ok"
          /\ getUser(users, last'.id).parentId # Null
          /\ getUser(users, last'.id).position \in Positions )
        => LET X == getUser(users, last'.id)
           IN  /\ ~HasChildAt(users', X.parentId, X.position)
               /\ X.position \in Range(getAvailablePositions(users', X.parentId)) ]_vars

\* C23 (stores filled through createUser, SpecSeeded): when the requested
\* parent is full and no client has a free position, createClientWithPayment
\* called with an admin id stores the new client under that admin at the
\* admin's first free position, and when the admin is full too it stores the
\* client with neither parentId nor position.
C23_LastResortUnderAdminOrParentless ==
    [][ ( /\ last'.op = "createClientWithPayment"
          /\ Requested(last') # Null
          /\ IsFull(users, Requested(last'))
          /\ last'.by # Null
          /\ ~ \E c \in Range(users) : c.role = "client" /\ ~IsFull(users, c.id) )
        => ( /\ Newest(users').id = last'.id
             /\ IF ~IsFull(users, last'.by)
                THEN /\ Newest(users').parentId = last'.by
                     /\ Newest(users').position = FirstFree(users, last'.by)
                ELSE /\ Newest(users').parentId = Null
                     /\ Newest(users').position = NoPos ) ]_vars

====
